---- MODULE Spec2Model ----
(***************************************************************************)
(* A model of the ads-spend metrics API (octavioeac/ads-spend, src/api):   *)
(*   - domain/nlq_mapper.py     NaturalLanguageToAPI: question -> windows  *)
(*   - data/bq_repository.py    BigQueryRepository.compare_periods (SQL)   *)
(*   - services/metrics_service.py  MetricsService.compare_periods         *)
(*   - routers/nlq.py, routers/metrics.py, main.py  the HTTP handlers      *)
(*                                                                         *)
(* Representation.                                                         *)
(*   date object        record [year, month, day]                          *)
(*   ISO date string    tuple <<y, m, d>> (the three fields of YYYY-MM-DD);*)
(*                      a tuple that names no calendar day is a string     *)
(*                      strptime / the warehouse cannot parse              *)
(*   question           sequence of words separated by single blanks       *)
(*   Python None / SQL NULL   the empty tuple <<>>                         *)
(*   SQL FLOAT64 quotient     a reduced fraction <<num, den>>, den > 0     *)
(*   Python dict        record; {} is the empty function <<>>              *)
(* The warehouse columns spend, conversions and revenue are non-negative   *)
(* integers and never NULL; the warehouse and the token service answer     *)
(* every query (their outages are not modelled).                           *)
(***************************************************************************)
EXTENDS Integers, Sequences, FiniteSets, TLC

VARIABLES clock, nl_today, table, resp, calls

vars == <<clock, nl_today, table, resp, calls>>

None == <<>>

(***************************************************************************)
(* Bounds of the model.                                                    *)
(***************************************************************************)
\* The most rows the warehouse table holds.
MaxRows == 2
\* The most calendar days that pass while one process runs.
MaxTicks == 1
\* The number of start days after the first one.
TodaySpan == 436

(***************************************************************************)
(* Calendar arithmetic of datetime.date (proleptic Gregorian ordinals).    *)
(***************************************************************************)
MinOrdinal == 1
MaxOrdinal == 3652059

IsLeap(y) == (y % 4 = 0) /\ ((y % 100 # 0) \/ (y % 400 = 0))

DaysInMonth(y, m) ==
    IF m = 2 THEN (IF IsLeap(y) THEN 29 ELSE 28)
    ELSE IF m \in {4, 6, 9, 11} THEN 30 ELSE 31

DaysBeforeMonthTable == <<0, 31, 59, 90, 120, 151, 181, 212, 243, 273, 304, 334>>

DaysBeforeMonth(y, m) ==
    DaysBeforeMonthTable[m] + (IF m > 2 /\ IsLeap(y) THEN 1 ELSE 0)

DaysBeforeYear(y) ==
    LET p == y - 1 IN p * 365 + (p \div 4) - (p \div 100) + (p \div 400)

Date(y, m, d) == [year |-> y, month |-> m, day |-> d]

ToOrdinal(dt) ==
    DaysBeforeYear(dt.year) + DaysBeforeMonth(dt.year, dt.month) + dt.day

\* datetime._ord2ymd: the 400/100/4/1-year cycle decomposition, one
\* divmod per step.
Ord2Month(y, leap, n) ==
    LET guess  == (n + 50) \div 32
        before == DaysBeforeMonthTable[guess]
                    + (IF guess > 2 /\ leap THEN 1 ELSE 0)
    IN  IF before > n
        THEN Date(y, guess - 1,
                  n - (before - (IF guess - 1 = 2 /\ leap THEN 29
                                 ELSE DaysInMonth(2001, guess - 1))) + 1)
        ELSE Date(y, guess, n - before + 1)

Ord2Year1(y, n100, n4, n1, n) ==
    IF n1 = 4 \/ n100 = 4
    THEN Date(y + n1 - 1, 12, 31)
    ELSE Ord2Month(y + n1, (n1 = 3) /\ (n4 # 24 \/ n100 = 3), n)

Ord2Year4(y, n100, n4, n) ==
    Ord2Year1(y + n4 * 4, n100, n4, n \div 365, n % 365)

Ord2Year100(y, n100, n) ==
    Ord2Year4(y + n100 * 100, n100, n \div 1461, n % 1461)

Ord2Year400(n400, n) ==
    Ord2Year100(n400 * 400 + 1, n \div 36524, n % 36524)

FromOrdinal(ordinal) ==
    Ord2Year400((ordinal - 1) \div 146097, (ordinal - 1) % 146097)

\* date - timedelta(days=k): None stands for the OverflowError that
\* datetime raises when the result leaves date.min..date.max.
MinusDays(dt, k) ==
    IF dt = None THEN None
    ELSE LET o == ToOrdinal(dt) - k
         IN  IF o < MinOrdinal \/ o > MaxOrdinal THEN None ELSE FromOrdinal(o)

\* A month step that forgets to carry December into the next year.
PlusOneMonthSameYear(dt) ==
    LET m == IF dt.month = 12 THEN 1 ELSE dt.month + 1
        d == IF dt.day > DaysInMonth(dt.year, m)
             THEN DaysInMonth(dt.year, m) ELSE dt.day
    IN  Date(dt.year, m, d)

\* date + relativedelta(months=1)
PlusOneMonth(dt) ==
    LET y == IF dt.month = 12 THEN dt.year + 1 ELSE dt.year
        m == IF dt.month = 12 THEN 1 ELSE dt.month + 1
        d == IF dt.day > DaysInMonth(y, m) THEN DaysInMonth(y, m) ELSE dt.day
    IN  Date(y, m, d)

DateLE(a, b) == ToOrdinal(a) <= ToOrdinal(b)
DateLT(a, b) == ToOrdinal(a) < ToOrdinal(b)
DateMin(a, b) == IF DateLT(b, a) THEN b ELSE a

\* date.isoformat(): the YYYY-MM-DD text, as its three fields.
IsoFormat(dt) == <<dt.year, dt.month, dt.day>>

\* Whether a YYYY-MM-DD text names a calendar day (strptime("%Y-%m-%d")
\* raises ValueError otherwise; the warehouse rejects the DATE parameter).
IsIsoDate(s) ==
    /\ s[1] \in 1..9999
    /\ s[2] \in 1..12
    /\ s[3] \in 1..DaysInMonth(s[1], s[2])

\* datetime.strptime(s, "%Y-%m-%d").date()
ParseIso(s) == Date(s[1], s[2], s[3])

(***************************************************************************)
(* NaturalLanguageToAPI (domain/nlq_mapper.py).                            *)
(***************************************************************************)
\* self.metric_mapping, in the dict's insertion order.
MetricKeys == <<"cac", "roas", "spend", "conversions", "revenue",
                "performance", "metrics">>

metric_mapping ==
    [k \in {MetricKeys[i] : i \in DOMAIN MetricKeys} |->
        CASE k = "cac" -> "CAC"
          [] k = "roas" -> "ROAS"
          [] k = "performance" -> "all"
          [] k = "metrics" -> "all"
          [] OTHER -> k]

\* self.months
months ==
    [january |-> 1, february |-> 2, march |-> 3, april |-> 4, may |-> 5,
     june |-> 6, july |-> 7, august |-> 8, september |-> 9, october |-> 10,
     november |-> 11, december |-> 12,
     enero |-> 1, febrero |-> 2, marzo |-> 3, abril |-> 4, mayo |-> 5,
     junio |-> 6, julio |-> 7, agosto |-> 8, septiembre |-> 9,
     setiembre |-> 9, octubre |-> 10, noviembre |-> 11, diciembre |-> 12]

\* _norm on one word: lower-casing and dropping the combining marks of the
\* NFD form.  Words already in lower-case ASCII are left as they are.
NormWord(w) ==
    CASE w = "Last" -> "last"
      [] w = "JUNE" -> "june"
      [] w = "May" -> "may"
      [] w = "Pasado" -> "pasado"
      [] w = "CAC" -> "cac"
      [] OTHER -> w

_norm(s) == [i \in 1..Len(s) |-> NormWord(s[i])]

\* The decimal numerals of the vocabulary and int() of each.
IntOf(w) ==
    CASE w = "0" -> 0
      [] w = "1" -> 1
      [] w = "2" -> 2
      [] w = "7" -> 7
      [] w = "07" -> 7
      [] w = "30" -> 30
      [] w = "400000" -> 400000

IsDigits(w) == w \in {"0", "1", "2", "7", "07", "30", "400000"}

\* [a-z]+ matching a whole word of a normalised question: every word of
\* the vocabulary that is not a numeral is lower-case ASCII letters.
IsAlpha(w) == ~IsDigits(w)

\* k in q for a keyword k without blanks: k occurs inside some word.
OccursIn(k, w) == w = k \/ (k = "spend" /\ w = "spending")

Contains(q, k) == \E i \in 1..Len(q) : OccursIn(k, q[i])

\* re.search / str.__contains__ for a phrase of two or three words: the
\* positions at which the phrase starts in q.
Pair(q, A, B) ==
    {i \in 1..(Len(q) - 1) : q[i] \in A /\ q[i + 1] \in B}

NumberOfDays(q, A) ==
    {i \in 1..(Len(q) - 2) :
        q[i] \in A /\ IsDigits(q[i + 1]) /\ q[i + 2] \in {"day", "days"}}

WordVsWord(q) ==
    {i \in 1..(Len(q) - 2) :
        IsAlpha(q[i]) /\ q[i + 1] = "vs" /\ IsAlpha(q[i + 2])}

First(S) == CHOOSE i \in S : \A j \in S : i <= j

\* A scan that tries conversions before spend and never tries roas.
ExtractMetricsConversionsFirst(q) ==
    LET order == <<"cac", "conversions", "spend", "revenue",
                   "performance", "metrics">>
        hits  == {i \in DOMAIN order : Contains(q, order[i])}
    IN  IF Contains(q, "cac") /\ Contains(q, "roas") THEN <<"CAC", "ROAS">>
        ELSE IF hits = {} THEN <<"all">>
        ELSE <<metric_mapping[order[First(hits)]]>>

_extract_metrics(q) ==
    IF Contains(q, "cac") /\ Contains(q, "roas") THEN <<"CAC", "ROAS">>
    ELSE LET hits == {i \in DOMAIN MetricKeys : Contains(q, MetricKeys[i])}
         IN  IF hits = {} THEN <<"all">>
             ELSE <<metric_mapping[MetricKeys[First(hits)]]>>

\* An extraction that tries the current/last month pattern first and the
\* week pattern before the named months.
ExtractTimePeriodsMonthFirst(q) ==
    LET m_last  == NumberOfDays(q, {"last"})
        m_prior == NumberOfDays(q, {"prior", "previous"})
        this_m  == Pair(q, {"this", "este"}, {"month"})
        last_m  == Pair(q, {"last"}, {"month"})
                     \cup Pair(q, {"mes"}, {"pasado"})
        mv      == WordVsWord(q)
        last_w  == Pair(q, {"last"}, {"week"})
        prior_w == Pair(q, {"prior", "previous"}, {"week"})
    IN  IF this_m # {} /\ last_m # {}
        THEN <<[type |-> "current", unit |-> "month"],
               [type |-> "last", unit |-> "month"]>>
        ELSE IF /\ m_last # {}
                /\ m_prior # {}
                /\ IntOf(q[First(m_last) + 1]) = IntOf(q[First(m_prior) + 1])
        THEN LET d == IntOf(q[First(m_last) + 1])
             IN  <<[type |-> "last", value |-> d, unit |-> "days"],
                   [type |-> "prior", value |-> d, unit |-> "days"]>>
        ELSE IF last_w # {} /\ prior_w # {}
        THEN <<[type |-> "last", unit |-> "week"],
               [type |-> "prior", unit |-> "week"]>>
        ELSE IF /\ mv # {}
                /\ q[First(mv)] \in DOMAIN months
                /\ q[First(mv) + 2] \in DOMAIN months
        THEN <<[type |-> "month", value |-> q[First(mv)]],
               [type |-> "month", value |-> q[First(mv) + 2]]>>
        ELSE <<>>

_extract_time_periods(q) ==
    LET m_last  == NumberOfDays(q, {"last"})
        m_prior == NumberOfDays(q, {"prior", "previous"})
        this_m  == Pair(q, {"this", "este"}, {"month"})
        last_m  == Pair(q, {"last"}, {"month"})
                     \cup Pair(q, {"mes"}, {"pasado"})
        mv      == WordVsWord(q)
        last_w  == Pair(q, {"last"}, {"week"})
        prior_w == Pair(q, {"prior", "previous"}, {"week"})
    IN  IF /\ m_last # {}
           /\ m_prior # {}
           /\ IntOf(q[First(m_last) + 1]) = IntOf(q[First(m_prior) + 1])
        THEN LET d == IntOf(q[First(m_last) + 1])
             IN  <<[type |-> "last", value |-> d, unit |-> "days"],
                   [type |-> "prior", value |-> d, unit |-> "days"]>>
        ELSE IF this_m # {} /\ last_m # {}
        THEN <<[type |-> "current", unit |-> "month"],
               [type |-> "last", unit |-> "month"]>>
        ELSE IF /\ mv # {}
                /\ q[First(mv)] \in DOMAIN months
                /\ q[First(mv) + 2] \in DOMAIN months
        THEN <<[type |-> "month", value |-> q[First(mv)]],
               [type |-> "month", value |-> q[First(mv) + 2]]>>
        ELSE IF last_w # {} /\ prior_w # {}
        THEN <<[type |-> "last", unit |-> "week"],
               [type |-> "prior", unit |-> "week"]>>
        ELSE <<>>

\* A month range that takes every month to have thirty days.
MonthRangeThirtyDays(year, month) ==
    <<Date(year, month, 1), MinusDays(Date(year, month, 1), -29)>>

\* _month_range: the first day of the month and the day before the first
\* day of the next month.
_month_range(year, month) ==
    LET start == Date(year, month, 1)
    IN  <<start, MinusDays(PlusOneMonth(start), 1)>>

\* dict.get(key): None when the key is absent.
Get(p, k) == IF k \in DOMAIN p THEN p[k] ELSE None

Params(fs, fe, ss, se) ==
    [first_start |-> IsoFormat(fs), first_end |-> IsoFormat(fe),
     second_start |-> IsoFormat(ss), second_end |-> IsoFormat(se)]

\* The exception a date subtraction raised inside _generate_date_params.
OverflowError == [raised |-> "OverflowError"]

\* Weeks that end today instead of yesterday.
WeekParamsEndingToday(today) ==
    Params(MinusDays(today, 13), MinusDays(today, 7),
           MinusDays(today, 6), today)

\* The last/prior week branch of _generate_date_params.
WeekParams(today) ==
    LET end_last    == MinusDays(today, 1)
        start_last  == MinusDays(end_last, 6)
        end_prior   == MinusDays(start_last, 1)
        start_prior == MinusDays(end_prior, 6)
    IN  Params(start_prior, end_prior, start_last, end_last)

_generate_date_params(time_periods, today) ==
    IF Len(time_periods) = 2
       /\ \A i \in 1..2 : Get(time_periods[i], "unit") = "days"
    THEN LET days         == time_periods[1].value
             second_end   == today
             second_start == MinusDays(today, days - 1)
             first_end    == MinusDays(second_start, 1)
             first_start  == MinusDays(first_end, days - 1)
         IN  IF None \in {second_start, first_end, first_start}
             THEN OverflowError
             ELSE Params(first_start, first_end, second_start, second_end)
    ELSE IF Len(time_periods) = 2
            /\ Get(time_periods[1], "unit") = "month"
            /\ time_periods[1].type = "current"
    THEN LET cur       == _month_range(today.year, today.month)
             prev_date == MinusDays(cur[1], 1)
             last      == _month_range(prev_date.year, prev_date.month)
         IN  Params(last[1], last[2], cur[1], DateMin(cur[2], today))
    ELSE IF Len(time_periods) = 2
            /\ \A i \in 1..2 : time_periods[i].type = "month"
    THEN LET y  == today.year
             r1 == _month_range(y, months[time_periods[1].value])
             r2 == _month_range(y, months[time_periods[2].value])
         IN  Params(r1[1], r1[2], r2[1], r2[2])
    ELSE IF Len(time_periods) = 2
            /\ \A i \in 1..2 : Get(time_periods[i], "unit") = "week"
    THEN WeekParams(today)
    ELSE <<>>

\* The dict parse_natural_language returns for the extracted metrics,
\* periods and generated parameters.
Parsed(metrics, time_periods, api_params) ==
    IF api_params = OverflowError THEN OverflowError
    ELSE [metrics |-> metrics,
          time_periods |-> time_periods,
          api_params |-> api_params,
          endpoint |-> "/metrics/compare-periods"]

\* A parser that answers an unrecognised question with the last 30 days
\* against the 30 days before them.
ParseWithDefaultRange(q, today) ==
    IF _extract_time_periods(q) = <<>>
    THEN Parsed(_extract_metrics(q), <<>>,
                Params(MinusDays(today, 59), MinusDays(today, 30),
                       MinusDays(today, 29), today))
    ELSE Parsed(_extract_metrics(q), _extract_time_periods(q),
                _generate_date_params(_extract_time_periods(q), today))

ParseNormalised(q, today) ==
    IF _extract_time_periods(q) = <<>> THEN None
    ELSE Parsed(_extract_metrics(q), _extract_time_periods(q),
                _generate_date_params(_extract_time_periods(q), today))

\* parse_natural_language: None, the parsed dict, or the exception raised
\* while generating the date parameters.
parse_natural_language(question, today) ==
    ParseNormalised(_norm(question), today)

SuggestedUrl(parsed) ==
    IF parsed = None \/ parsed = OverflowError THEN parsed
    ELSE IF parsed.api_params = <<>> THEN None
    ELSE [base |-> "http://localhost:8000/metrics/compare-periods",
          first_start |-> parsed.api_params.first_start,
          first_end |-> parsed.api_params.first_end,
          second_start |-> parsed.api_params.second_start,
          second_end |-> parsed.api_params.second_end]

generate_api_url(question, today) ==
    SuggestedUrl(parse_natural_language(question, today))

(***************************************************************************)
(* SQL arithmetic: FLOAT64 quotients as reduced fractions.                 *)
(***************************************************************************)
RECURSIVE Gcd(_, _)
Gcd(a, b) == IF b = 0 THEN a ELSE Gcd(b, a % b)

Abs(x) == IF x < 0 THEN -x ELSE x

Frac(n, d) ==
    LET g == Gcd(Abs(n), d) IN <<n \div g, d \div g>>

\* A division that answers 0 for a zero divisor instead of NULL.
SafeDivideZero(x, y) == IF y = 0 THEN <<0, 1>> ELSE Frac(x, y)

\* SAFE_DIVIDE(x, NULLIF(y, 0)) on integers x, y.
SafeDivide(x, y) == IF y = 0 THEN None ELSE Frac(x, y)

\* SAFE_DIVIDE(a - b, NULLIF(b, 0)) * 100 on fractions or NULL.
PctDelta(new, old) ==
    IF new = None \/ old = None THEN None
    ELSE IF old[1] = 0 THEN None
    ELSE LET num == (new[1] * old[2] - old[1] * new[2]) * old[2] * 100
             den == new[2] * old[2] * old[1]
         IN  IF den < 0 THEN Frac(-num, -den) ELSE Frac(num, den)

\* ROUND(x, 2): to hundredths, halves away from zero; NULL stays NULL.
Round2(x) ==
    IF x = None THEN None
    ELSE LET h == (Abs(x[1]) * 200 + x[2]) \div (2 * x[2])
         IN  Frac(IF x[1] < 0 THEN -h ELSE h, 100)

RECURSIVE SumOver(_, _, _)
\* SUM(col) over the rows of sequence t whose index is in the set idx.
SumOver(t, idx, col) ==
    IF idx = {} THEN 0
    ELSE LET i == CHOOSE j \in idx : TRUE
         IN  t[i][col] + SumOver(t, idx \ {i}, col)

\* x BETWEEN lo AND hi on DATE values.
Between(x, lo, hi) == DateLE(lo, x) /\ DateLE(x, hi)

(***************************************************************************)
(* BigQueryRepository.compare_periods (data/bq_repository.py).             *)
(***************************************************************************)
\* The exception the client raises when a DATE parameter is no date.
BadRequest == [raised |-> "BadRequest"]

\* The CASE of the labelled CTE.
Label(dt, fs, fe, ss, se) ==
    IF Between(dt, fs, fe) THEN "first"
    ELSE IF Between(dt, ss, se) THEN "second"
    ELSE None

\* The rows the base CTE reads: WHERE DATE(date) BETWEEN @first_start AND
\* @second_end.
BaseRows(t, fs, se) == {i \in DOMAIN t : Between(t[i].dt, fs, se)}

\* Whether the query job fails: a DATE parameter that is no date.
QueryRaises(first_start, first_end, second_start, second_end) ==
    \E s \in {first_start, first_end, second_start, second_end} :
        ~IsIsoDate(s)

\* The rows of the final SELECT (one per period that labelled at least one
\* day), for parameters the warehouse accepts.
RepoComparePeriods(t, first_start, first_end, second_start, second_end) ==
    LET fs == ParseIso(first_start)
        fe == ParseIso(first_end)
        ss == ParseIso(second_start)
        se == ParseIso(second_end)
        base == BaseRows(t, fs, se)
        inp(p) == {i \in base : Label(t[i].dt, fs, fe, ss, se) = p}
        agg(p) ==
            LET spend       == SumOver(t, inp(p), "spend")
                conversions == SumOver(t, inp(p), "conversions")
                revenue     == SumOver(t, inp(p), "revenue")
            IN  [period |-> p, spend |-> spend,
                 conversions |-> conversions, revenue |-> revenue,
                 CAC |-> SafeDivide(spend, conversions),
                 ROAS |-> SafeDivide(revenue, spend)]
    IN  {agg(p) : p \in {q \in {"first", "second"} : inp(q) # {}}}

(***************************************************************************)
(* MetricsService.compare_periods (services/metrics_service.py).           *)
(***************************************************************************)
filter_metrics(d, metrics) ==
    IF d = <<>> THEN <<>>
    ELSE IF metrics = <<"all">> THEN d
    ELSE LET keep == {"period"} \cup {metrics[i] : i \in DOMAIN metrics}
         IN  [k \in DOMAIN d \cap keep |-> d[k]]

ServiceComparePeriods(t, first_start, first_end, second_start, second_end, metrics) ==
    LET rows == RepoComparePeriods(t, first_start, first_end,
                                   second_start, second_end)
        get(p) == IF \E r \in rows : r.period = p
                  THEN CHOOSE r \in rows : r.period = p
                  ELSE <<>>
    IN  IF QueryRaises(first_start, first_end, second_start, second_end)
        THEN BadRequest
        ELSE [first_period |-> filter_metrics(get("first"), metrics),
              second_period |-> filter_metrics(get("second"), metrics)]

(***************************************************************************)
(* GET /metrics (main.py): validation, the query and the response.         *)
(***************************************************************************)
\* The filled CTE: one row per period, zeros where agg has no row;
\* revenue is conversions * 100.
MainFilled(t, fs, fe, ss, se, p) ==
    LET base  == BaseRows(t, fs, se)
        inp   == {i \in base :
                    (IF Between(t[i].dt, fs, fe) THEN "first_period"
                     ELSE IF Between(t[i].dt, ss, se) THEN "second_period"
                     ELSE "other") = p}
        spend == SumOver(t, inp, "spend")
        conv  == SumOver(t, inp, "conversions")
    IN  [period |-> p, spend |-> spend, conv |-> conv,
         revenue |-> conv * 100,
         CAC |-> SafeDivide(spend, conv),
         ROAS |-> SafeDivide(conv * 100, spend)]

\* The final SELECT over pivoted and the response built from its row.
MainQueryResponse(t, first_start, first_end, second_start, second_end) ==
    LET fs == ParseIso(first_start)
        fe == ParseIso(first_end)
        ss == ParseIso(second_start)
        se == ParseIso(second_end)
        f  == MainFilled(t, fs, fe, ss, se, "first_period")
        g  == MainFilled(t, fs, fe, ss, se, "second_period")
        int(x) == Frac(x, 1)
    IN  [periods |->
            [first |-> [start |-> first_start, end |-> first_end],
             second |-> [start |-> second_start, end |-> second_end]],
         metrics |->
            [spend_first |-> f.spend, spend_second |-> g.spend,
             conversions_first |-> f.conv, conversions_second |-> g.conv,
             revenue_first |-> f.revenue, revenue_second |-> g.revenue,
             CAC_first |-> Round2(f.CAC), CAC_second |-> Round2(g.CAC),
             ROAS_first |-> Round2(f.ROAS), ROAS_second |-> Round2(g.ROAS)],
         deltas_pct |->
            [spend |-> Round2(PctDelta(int(g.spend), int(f.spend))),
             conversions |-> Round2(PctDelta(int(g.conv), int(f.conv))),
             revenue |-> Round2(PctDelta(int(g.revenue), int(f.revenue))),
             CAC |-> Round2(PctDelta(g.CAC, f.CAC)),
             ROAS |-> Round2(PctDelta(g.ROAS, f.ROAS))]]

Reply(endpoint, request, status, body) ==
    [endpoint |-> endpoint, request |-> request, status |-> status,
     body |-> body]

Call(fn, args) == [fn |-> fn, args |-> args]

Window(fs, fe, ss, se) ==
    [first_start |-> fs, first_end |-> fe,
     second_start |-> ss, second_end |-> se]

\* The date-range validation of GET /metrics: the detail of the 400 it
\* raises, or the empty text when both periods have start <= end.
MainRangeError(fs, fe, ss, se) ==
    IF DateLT(ParseIso(fe), ParseIso(fs))
    THEN "First period start must be before end"
    ELSE IF DateLT(ParseIso(se), ParseIso(ss))
    THEN "Second period start must be before end"
    ELSE ""

(***************************************************************************)
(* The handlers.  Each action is one request handled from start to end:    *)
(* resp is the response, calls the warehouse queries issued for it.  The   *)
(* requests are handled one at a time: a handler runs when the previous    *)
(* response has been sent (Send).                                          *)
(***************************************************************************)
NoReply == [endpoint |-> "none", request |-> <<>>, status |-> 0,
            body |-> <<>>]

Idle == resp = NoReply

\* The response leaves; nothing of the request is kept.
Send ==
    /\ ~Idle
    /\ resp' = NoReply
    /\ calls' = <<>>
    /\ UNCHANGED <<clock, nl_today, table>>

\* GET /metrics (main.py compare_periods)
MainComparePeriods(fs, fe, ss, se) ==
    LET request == Window(fs, fe, ss, se)
        ep      == "GET /metrics"
    IN  /\ Idle
        /\ IF \E s \in {fs, fe, ss, se} : ~IsIsoDate(s)
           THEN /\ resp' = Reply(ep, request, 400,
                                 "Invalid date format. Use YYYY-MM-DD")
                /\ calls' = <<>>
           ELSE IF MainRangeError(fs, fe, ss, se) # ""
           THEN /\ resp' = Reply(ep, request, 400,
                                 MainRangeError(fs, fe, ss, se))
                /\ calls' = <<>>
           ELSE /\ resp' = Reply(ep, request, 200,
                                 MainQueryResponse(table, fs, fe, ss, se))
                /\ calls' = <<Call("run_bq_query", request)>>
        /\ UNCHANGED <<clock, nl_today, table>>

\* The metrics query parameter: "all" in any case, or the comma-separated
\* names, given here as the sequence of its items.
MetricsList(metrics) ==
    IF metrics \in {<<"all">>, <<"ALL">>} THEN <<"all">> ELSE metrics

\* GET /metrics/compare-periods (routers/metrics.py compare_periods)
RouterComparePeriods(fs, fe, ss, se, metrics) ==
    LET request == [first_start |-> fs, first_end |-> fe,
                    second_start |-> ss, second_end |-> se,
                    metrics |-> metrics]
        ep      == "GET /metrics/compare-periods"
        data    == ServiceComparePeriods(table, fs, fe, ss, se,
                                         MetricsList(metrics))
    IN  /\ Idle
        /\ calls' = <<Call("BigQueryRepository.compare_periods",
                           Window(fs, fe, ss, se))>>
        /\ IF data = BadRequest
           THEN resp' = Reply(ep, request, 500, "Internal Server Error")
           ELSE resp' = Reply(ep, request, 200, data)
        /\ UNCHANGED <<clock, nl_today, table>>

\* The response of parse_and_run and the queries it issued, given what
\* nl.parse_natural_language returned.
NlqOutcome(request, parsed, url, t) ==
    IF parsed = OverflowError
    THEN [resp |-> Reply("POST /nlq/parse", request, 500,
                         "Internal Server Error"),
          calls |-> <<>>]
    ELSE IF parsed = None \/ parsed.api_params = <<>>
    THEN [resp |-> Reply("POST /nlq/parse", request, 400,
              "No se pudo interpretar periodos de tiempo en la pregunta."),
          calls |-> <<>>]
    ELSE IF ~request.execute
    THEN [resp |-> Reply("POST /nlq/parse", request, 200,
              [metrics |-> parsed.metrics,
               time_periods |-> parsed.time_periods,
               api_params |-> parsed.api_params,
               endpoint |-> parsed.endpoint,
               suggested_url |-> url]),
          calls |-> <<>>]
    ELSE [resp |-> Reply("POST /nlq/parse", request, 200,
              [question |-> request.question,
               metrics |-> parsed.metrics,
               ranges |-> parsed.api_params,
               result |-> ServiceComparePeriods(t,
                   parsed.api_params.first_start,
                   parsed.api_params.first_end,
                   parsed.api_params.second_start,
                   parsed.api_params.second_end,
                   parsed.metrics)]),
          calls |-> <<Call("BigQueryRepository.compare_periods",
                           parsed.api_params)>>]

\* POST /nlq/parse (routers/nlq.py parse_and_run); nl is the module-level
\* NaturalLanguageToAPI, whose today is nl_today.
ParseAndRun(question, execute) ==
    LET out == NlqOutcome([question |-> question, execute |-> execute],
                          parse_natural_language(question, nl_today),
                          generate_api_url(question, nl_today),
                          table)
    IN  /\ Idle
        /\ resp' = out.resp
        /\ calls' = out.calls
        /\ UNCHANGED <<clock, nl_today, table>>

\* A calendar day passes while the process keeps running.
Tick ==
    /\ ToOrdinal(clock) - ToOrdinal(nl_today) < MaxTicks
    /\ clock' = FromOrdinal(ToOrdinal(clock) + 1)
    /\ UNCHANGED <<nl_today, table, resp, calls>>

(***************************************************************************)
(* Inputs.                                                                 *)
(***************************************************************************)
\* The days the warehouse holds rows for, and the metric values of a row.
TableDays == <<Date(2025, 5, 31), Date(2025, 6, 1), Date(2025, 6, 2)>>

RowValues ==
    <<[spend |-> 50, conversions |-> 0, revenue |-> 0],
      [spend |-> 0, conversions |-> 3, revenue |-> 120],
      [spend |-> 50, conversions |-> 3, revenue |-> 120]>>

\* Row number k: day (k-1) \div 3 + 1 with the values (k-1) % 3 + 1.
RowNo(k) ==
    LET v == RowValues[((k - 1) % Len(RowValues)) + 1]
    IN  [dt |-> TableDays[((k - 1) \div Len(RowValues)) + 1],
         spend |-> v.spend, conversions |-> v.conversions,
         revenue |-> v.revenue]

\* The tables of at most MaxRows rows; a table is a bag of rows, listed
\* in one fixed order.
Tables ==
    LET K == 1..(Len(TableDays) * Len(RowValues))
    IN  UNION {{[i \in 1..n |-> RowNo(ks[i])] :
                    ks \in {x \in [1..n -> K] :
                              \A i \in 1..(n - 1) : x[i] <= x[i + 1]}} :
               n \in 0..MaxRows}

\* The date parameters of the explicit-date requests: the windows over
\* the table's days, and two with a text that names no calendar day.
IsoDays == {IsoFormat(TableDays[i]) : i \in DOMAIN TableDays}

NoDate == <<2025, 2, 30>>

Windows ==
    {Window(w[1], w[2], w[3], w[4]) : w \in IsoDays \X IsoDays \X IsoDays \X IsoDays}
      \cup {Window(NoDate, <<2025, 6, 1>>, <<2025, 6, 2>>, <<2025, 6, 2>>),
            Window(<<2025, 5, 31>>, <<2025, 6, 1>>, <<2025, 6, 2>>, NoDate)}

MetricsParams == {<<"all">>, <<"CAC", "spend">>}

StartDays == {Date(2025, 6, 2)}

ServiceQuestions ==
    {<<"last", "1", "days", "vs", "prior", "1", "days">>,
     <<"roas", "last", "2", "days", "vs", "previous", "2", "days">>,
     <<"last", "0", "days", "vs", "prior", "0", "days">>,
     <<"last", "400000", "days", "vs", "prior", "400000", "days">>,
     <<"spend", "this", "month", "vs", "last", "month">>,
     <<"june", "vs", "may">>,
     <<"CAC", "May", "vs", "JUNE">>,
     <<"last", "week", "vs", "prior", "week">>,
     <<"how", "is", "the", "weather">>,
     <<"last", "7", "days", "vs", "prior", "30", "days">>}

(***************************************************************************)
(* The service: every endpoint, over every table of at most MaxRows rows.  *)
(***************************************************************************)
Init ==
    /\ clock \in StartDays
    /\ nl_today = clock
    /\ table \in Tables
    /\ resp = NoReply
    /\ calls = <<>>

Next ==
    \/ \E w \in Windows :
           MainComparePeriods(w.first_start, w.first_end,
                              w.second_start, w.second_end)
    \/ \E w \in Windows : \E m \in MetricsParams :
           RouterComparePeriods(w.first_start, w.first_end,
                                w.second_start, w.second_end, m)
    \/ \E q \in ServiceQuestions : \E e \in BOOLEAN : ParseAndRun(q, e)
    \/ Send
    \/ Tick

Spec == Init /\ [][Next]_vars

(***************************************************************************)
(* The natural-language endpoint over a wide set of questions.             *)
(***************************************************************************)
MetricWords == {"cac", "roas", "spend", "conversions", "revenue",
                "performance", "metrics", "spending", "CAC"}

MetricPrefixes ==
    {<<>>} \cup {<<a>> : a \in MetricWords}
           \cup {<<a, b>> : a \in MetricWords, b \in MetricWords}

Numerals == {"0", "1", "2", "7", "07", "30", "400000"}

MonthWords == DOMAIN months

CorePeriods ==
    {<<"june", "vs", "may">>,
     <<"last", "7", "days", "vs", "prior", "7", "days">>,
     <<"this", "month", "vs", "last", "month">>,
     <<"last", "week", "vs", "prior", "week">>}

DaysQuestions ==
    {<<"last", a, "days", "vs", p, b, "days">> :
        a \in Numerals, b \in Numerals, p \in {"prior", "previous"}}
      \cup {<<"Last", "1", "day", "vs", "prior", "1", "day">>,
            <<"prior", "7", "days", "vs", "last", "7", "days">>,
            <<"last", "7", "days", "last", "30", "days", "vs",
              "prior", "30", "days">>}

MonthQuestions ==
    {<<"this", "month", "vs", "last", "month">>,
     <<"este", "month", "vs", "mes", "Pasado">>,
     <<"last", "month", "vs", "this", "month">>,
     <<"this", "month">>,
     <<"last", "month", "vs", "mes", "pasado">>}

NamedQuestions ==
    {<<a, "vs", b>> : a \in MonthWords \cup {"weather", "JUNE"},
                      b \in MonthWords \cup {"weather", "May"}}

WeekQuestions ==
    {<<"last", "week", "vs", "prior", "week">>,
     <<"previous", "week", "vs", "last", "week">>,
     <<"last", "week">>,
     <<"prior", "week", "vs", "previous", "week">>}

OtherQuestions ==
    {<<"how", "is", "the", "weather">>,
     <<>>,
     <<"last", "7", "days">>,
     <<"june", "may">>,
     <<"7", "vs", "may">>,
     <<"vs", "vs", "may">>,
     <<"june", "vs", "may", "vs", "july">>,
     <<"weather", "vs", "june", "vs", "may">>}

\* Questions in which several patterns are present at once.
MixedQuestions ==
    {<<"june", "vs", "may", "last", "7", "days", "prior", "7", "days",
       "this", "month", "last", "month", "last", "week", "prior", "week">>,
     <<"june", "vs", "may", "last", "7", "days", "prior", "30", "days",
       "this", "month", "last", "month", "last", "week", "prior", "week">>,
     <<"june", "vs", "may", "last", "week", "previous", "week">>,
     <<"last", "7", "days", "vs", "prior", "30", "days",
       "last", "week", "previous", "week">>,
     <<"this", "month", "last", "month", "last", "2", "days",
       "previous", "2", "days">>}

PeriodQuestions ==
    DaysQuestions \cup MonthQuestions \cup NamedQuestions
      \cup WeekQuestions \cup OtherQuestions \cup MixedQuestions

Questions ==
    {p \o c : p \in MetricPrefixes, c \in CorePeriods}
      \cup {p \o k : p \in {<<>>, <<"cac">>, <<"roas", "vs">>},
                     k \in PeriodQuestions}

\* The days on which the process may have started.
Todays ==
    {Date(2024, 2, 29), Date(2024, 12, 31), Date(2025, 1, 1),
     Date(2025, 1, 31), Date(2025, 6, 15), Date(2025, 6, 30)}

NlqTable == <<RowNo(2), RowNo(4), RowNo(9)>>

InitNLQ ==
    /\ clock \in Todays
    /\ nl_today = clock
    /\ table = NlqTable
    /\ resp = NoReply
    /\ calls = <<>>

NextNLQ ==
    \/ \E q \in Questions : \E e \in BOOLEAN : ParseAndRun(q, e)
    \/ Send

SpecNLQ == InitNLQ /\ [][NextNLQ]_vars

(***************************************************************************)
(* The natural-language endpoint over every start day of a span of days.   *)
(***************************************************************************)
\* 2023-12-25, and the number of days after it the process may start on.
FirstToday == Date(2023, 12, 25)

CalendarDays ==
    {FromOrdinal(ToOrdinal(FirstToday) + k) : k \in 0..TodaySpan}

CalendarQuestions ==
    {<<"last", n, "days", "vs", "prior", n, "days">> : n \in Numerals}
      \cup {<<"this", "month", "vs", "last", "month">>,
            <<"june", "vs", "may">>,
            <<"febrero", "vs", "december">>,
            <<"february", "vs", "february">>,
            <<"last", "week", "vs", "previous", "week">>,
            <<"how", "is", "the", "weather">>}

InitCalendar ==
    /\ clock \in CalendarDays
    /\ nl_today = clock
    /\ table = NlqTable
    /\ resp = NoReply
    /\ calls = <<>>

NextCalendar ==
    \/ \E q \in CalendarQuestions : ParseAndRun(q, FALSE)
    \/ Send

SpecCalendar == InitCalendar /\ [][NextCalendar]_vars

(***************************************************************************)
(* Properties.  What a response says is read off resp and calls.           *)
(***************************************************************************)
RouterEndpoint == "GET /metrics/compare-periods"
MainEndpoint == "GET /metrics"
NlqEndpoint == "POST /nlq/parse"

\* The last request reached MetricsService.compare_periods and got its
\* result back.
ServiceAnswered ==
    /\ resp.status = 200
    /\ calls # <<>>
    /\ calls[1].fn = "BigQueryRepository.compare_periods"

\* What MetricsService.compare_periods returned, for which metrics, and
\* the window it was called with.
ServiceData == IF resp.endpoint = RouterEndpoint THEN resp.body
               ELSE resp.body.result

ServiceMetrics == IF resp.endpoint = RouterEndpoint
                  THEN MetricsList(resp.request.metrics)
                  ELSE resp.body.metrics

ServiceWindow == calls[1].args

\* The rows of the table dated within [lo, hi] (ISO texts).
RowsWithin(lo, hi) ==
    {i \in DOMAIN table :
        /\ ToOrdinal(ParseIso(lo)) <= ToOrdinal(table[i].dt)
        /\ ToOrdinal(table[i].dt) <= ToOrdinal(ParseIso(hi))}

ZeroAggregate(name) ==
    [period |-> name, spend |-> 0, conversions |-> 0, revenue |-> 0,
     CAC |-> None, ROAS |-> None]

PopulatedAggregate(agg, name, lo, hi) ==
    /\ agg # <<>>
    /\ RowsWithin(lo, hi) = {} => agg = ZeroAggregate(name)

\* C1: the result of MetricsService.compare_periods always holds both
\* periods as populated aggregates; a period with no matching rows has
\* spend = conversions = revenue = 0 and CAC = ROAS = null, and is never
\* absent or an empty object.
C1_BothPeriodsPopulated ==
    (ServiceAnswered /\ ServiceMetrics = <<"all">>) =>
        /\ PopulatedAggregate(ServiceData.first_period, "first",
                              ServiceWindow.first_start,
                              ServiceWindow.first_end)
        /\ PopulatedAggregate(ServiceData.second_period, "second",
                              ServiceWindow.second_start,
                              ServiceWindow.second_end)

\* The value an aggregate reports for a column; an empty object reports
\* nothing, which counts as 0 here.
Reported(agg, col) == IF agg = <<>> THEN 0 ELSE agg[col]

\* Each window of the service call has start <= end.
WellFormedWindow ==
    /\ ToOrdinal(ParseIso(ServiceWindow.first_start))
          <= ToOrdinal(ParseIso(ServiceWindow.first_end))
    /\ ToOrdinal(ParseIso(ServiceWindow.second_start))
          <= ToOrdinal(ParseIso(ServiceWindow.second_end))

\* C2: for every window pair, also one whose first window lies after the
\* second, a row is counted in "first" if its date lies in the first
\* window, in "second" if its date lies in the second window (and not in
\* the first), and is discarded only if it lies in neither.
C2_RowsCountedByWindow ==
    (ServiceAnswered /\ ServiceMetrics = <<"all">> /\ WellFormedWindow) =>
        LET w      == ServiceWindow
            first  == RowsWithin(w.first_start, w.first_end)
            second == RowsWithin(w.second_start, w.second_end) \ first
        IN  \A col \in {"spend", "conversions", "revenue"} :
               /\ Reported(ServiceData.first_period, col)
                     = SumOver(table, first, col)
               /\ Reported(ServiceData.second_period, col)
                     = SumOver(table, second, col)

\* The last request was to an explicit-date endpoint, with four dates of
\* which a period's start lies after its end.
InvertedRangeRequest ==
    /\ resp.endpoint \in {MainEndpoint, RouterEndpoint}
    /\ \A k \in {"first_start", "first_end", "second_start", "second_end"} :
           IsIsoDate(resp.request[k])
    /\ \/ ToOrdinal(ParseIso(resp.request.first_start))
            > ToOrdinal(ParseIso(resp.request.first_end))
       \/ ToOrdinal(ParseIso(resp.request.second_start))
            > ToOrdinal(ParseIso(resp.request.second_end))

\* C5: on both explicit-date endpoints a request with first_start >
\* first_end or second_start > second_end is rejected with an error, and
\* no warehouse query is made for it.
C5_InvertedRangeRejected ==
    InvertedRangeRequest => (resp.status >= 400 /\ calls = <<>>)

\* x is the quotient n / d, or null when d = 0.
IsSafeQuotient(x, n, d) ==
    IF d = 0 THEN x = None
    ELSE x # None /\ x[2] > 0 /\ x[1] * d = n * x[2]

\* x is n / d rounded to hundredths, or null when d = 0.
IsRoundedQuotient(x, n, d) ==
    IF d = 0 THEN x = None
    ELSE /\ x # None
         /\ x[2] > 0
         /\ 100 % x[2] = 0
         /\ LET diff == 2 * (x[1] * (100 \div x[2]) * d - 100 * n)
            IN  -d <= diff /\ diff <= d

ExactAggregate(agg) ==
    agg # <<>> =>
        /\ IsSafeQuotient(agg.CAC, agg.spend, agg.conversions)
        /\ IsSafeQuotient(agg.ROAS, agg.revenue, agg.spend)

MainAnswered == resp.endpoint = MainEndpoint /\ resp.status = 200

\* Every valid window of a service call or of GET /metrics gets its
\* aggregates: no zero divisor makes the request fail.
NoDivisionError ==
    /\ (resp.endpoint = MainEndpoint
          /\ \A k \in DOMAIN resp.request : IsIsoDate(resp.request[k])
          /\ ~InvertedRangeRequest) => resp.status = 200
    /\ (resp.endpoint = RouterEndpoint
          /\ \A k \in {"first_start", "first_end", "second_start",
                       "second_end"} : IsIsoDate(resp.request[k]))
          => resp.status = 200

ServiceAggregatesExact ==
    (ServiceAnswered /\ ServiceMetrics = <<"all">>) =>
        /\ ExactAggregate(ServiceData.first_period)
        /\ ExactAggregate(ServiceData.second_period)

\* C10 as stated: in every period aggregate returned, CAC is null exactly
\* when the summed conversions are zero and otherwise equals spend /
\* conversions, ROAS is null exactly when the summed spend is zero and
\* otherwise equals revenue / spend, and no zero divisor makes an error.
C10_ExactQuotients ==
    /\ NoDivisionError
    /\ ServiceAggregatesExact
    /\ MainAnswered =>
         LET m == resp.body.metrics
         IN  /\ IsSafeQuotient(m.CAC_first, m.spend_first,
                               m.conversions_first)
             /\ IsSafeQuotient(m.CAC_second, m.spend_second,
                               m.conversions_second)
             /\ IsSafeQuotient(m.ROAS_first, m.revenue_first,
                               m.spend_first)
             /\ IsSafeQuotient(m.ROAS_second, m.revenue_second,
                               m.spend_second)

\* C10 as amended: the aggregates of MetricsService.compare_periods hold
\* the exact quotients; GET /metrics reports CAC and ROAS null in the same
\* cases and otherwise the quotient rounded to two decimals.
C10_QuotientsExactOrRounded ==
    /\ NoDivisionError
    /\ ServiceAggregatesExact
    /\ MainAnswered =>
         LET m == resp.body.metrics
         IN  /\ IsRoundedQuotient(m.CAC_first, m.spend_first,
                                  m.conversions_first)
             /\ IsRoundedQuotient(m.CAC_second, m.spend_second,
                                  m.conversions_second)
             /\ IsRoundedQuotient(m.ROAS_first, m.revenue_first,
                                  m.spend_first)
             /\ IsRoundedQuotient(m.ROAS_second, m.revenue_second,
                                  m.spend_second)

\* GET /metrics reporting 50 / 3 as 16.67 beside a null CAC for a period
\* that spent without converting.
C10_Witness ==
    /\ MainAnswered
    /\ resp.body.metrics.spend_first = 50
    /\ resp.body.metrics.conversions_first = 3
    /\ resp.body.metrics.CAC_first = <<1667, 100>>
    /\ resp.body.metrics.conversions_second = 0
    /\ resp.body.metrics.spend_second > 0
    /\ resp.body.metrics.CAC_second = None

(***************************************************************************)
(* Properties of the natural-language endpoint.                            *)
(***************************************************************************)
NlqAnswered == resp.endpoint = NlqEndpoint /\ resp.status = 200

\* The normalised question of the last request to POST /nlq/parse.
AskedQuestion == _norm(resp.request.question)

\* The date parameters the response carries.
NlqParams == IF resp.request.execute THEN resp.body.ranges
             ELSE resp.body.api_params

Ord(iso) == ToOrdinal(ParseIso(iso))

\* The four time-period patterns, each as the positions it needs.
HasDaysPair(q) ==
    \E i, j \in 1..(Len(q) - 2) :
        /\ q[i] = "last" /\ q[j] \in {"prior", "previous"}
        /\ IsDigits(q[i + 1]) /\ IsDigits(q[j + 1])
        /\ q[i + 2] \in {"day", "days"} /\ q[j + 2] \in {"day", "days"}
        /\ IntOf(q[i + 1]) = IntOf(q[j + 1])

HasMonthPair(q) ==
    /\ \E i \in 1..(Len(q) - 1) :
           q[i] \in {"this", "este"} /\ q[i + 1] = "month"
    /\ \E i \in 1..(Len(q) - 1) :
           \/ q[i] = "last" /\ q[i + 1] = "month"
           \/ q[i] = "mes" /\ q[i + 1] = "pasado"

HasNamedMonths(q) ==
    \E i \in 1..(Len(q) - 2) :
        q[i] \in DOMAIN months /\ q[i + 1] = "vs" /\ q[i + 2] \in DOMAIN months

HasWeekPair(q) ==
    /\ \E i \in 1..(Len(q) - 1) : q[i] = "last" /\ q[i + 1] = "week"
    /\ \E i \in 1..(Len(q) - 1) :
           q[i] \in {"prior", "previous"} /\ q[i + 1] = "week"

NoPattern(q) ==
    ~HasDaysPair(q) /\ ~HasMonthPair(q) /\ ~HasNamedMonths(q)
      /\ ~HasWeekPair(q)

CouldNotInterpret ==
    "No se pudo interpretar periodos de tiempo en la pregunta."

\* C9: a question that matches none of the four time-period patterns gets
\* the "could not interpret" error; MetricsService.compare_periods is not
\* called and no default date range is substituted.
C9_UnrecognisedRejected ==
    (resp.endpoint = NlqEndpoint /\ NoPattern(AskedQuestion)) =>
        /\ resp.status = 400
        /\ resp.body = CouldNotInterpret
        /\ calls = <<>>

\* "how is the weather", sent to be executed, was rejected.
C9_Witness ==
    /\ resp.endpoint = NlqEndpoint
    /\ resp.request.question = <<"how", "is", "the", "weather">>
    /\ resp.request.execute
    /\ resp.status = 400

\* C3: for every question the recognizer accepts and every today, the
\* generated windows have first_start <= first_end, second_start <=
\* second_end and first_end < second_start.
C3_WindowsWellFormedOrdered ==
    (resp.endpoint = NlqEndpoint
       /\ _extract_time_periods(AskedQuestion) # <<>>) =>
        /\ resp.status = 200
        /\ Ord(NlqParams.first_start) <= Ord(NlqParams.first_end)
        /\ Ord(NlqParams.second_start) <= Ord(NlqParams.second_end)
        /\ Ord(NlqParams.first_end) < Ord(NlqParams.second_start)

\* The N of the relative-days pair the recognizer finds in the question,
\* or -1 when it finds none.
AskedDays ==
    LET tp == _extract_time_periods(AskedQuestion)
    IN  IF tp # <<>> /\ "unit" \in DOMAIN tp[1] /\ tp[1].unit = "days"
        THEN tp[1].value ELSE -1

\* C4: for every N of "last N days vs prior N days" and every today,
\* second = [today-N+1, today], first_end = second_start - 1 and
\* first_start = first_end - N + 1.
C4_RelativeDaysWindows ==
    (resp.endpoint = NlqEndpoint /\ AskedDays >= 0) =>
        /\ resp.status = 200
        /\ Ord(NlqParams.second_end) = ToOrdinal(nl_today)
        /\ Ord(NlqParams.second_start) = ToOrdinal(nl_today) - AskedDays + 1
        /\ Ord(NlqParams.first_end) = Ord(NlqParams.second_start) - 1
        /\ Ord(NlqParams.first_start)
             = Ord(NlqParams.first_end) - AskedDays + 1

\* The canonical metric of a keyword.
Canonical(k) ==
    CASE k = "cac" -> "CAC"
      [] k = "roas" -> "ROAS"
      [] k \in {"performance", "metrics"} -> "all"
      [] OTHER -> k

\* The metrics of question q when the keywords are scanned in the order
\* given: both cac and roas, else the first keyword that occurs, else all.
MetricsByOrder(q, order) ==
    IF Contains(q, "cac") /\ Contains(q, "roas") THEN <<"CAC", "ROAS">>
    ELSE IF \A i \in DOMAIN order : ~Contains(q, order[i]) THEN <<"all">>
    ELSE LET i == CHOOSE j \in DOMAIN order :
                    /\ Contains(q, order[j])
                    /\ \A h \in 1..(j - 1) : ~Contains(q, order[h])
         IN  <<Canonical(order[i])>>

\* C6 as stated: [CAC, ROAS] when both cac and roas occur, else the metric
\* of the first keyword in the order cac, conversions, spend, revenue,
\* performance, metrics that occurs, else ["all"].
C6_MetricsInStatedOrder ==
    NlqAnswered =>
        resp.body.metrics
          = MetricsByOrder(AskedQuestion,
                           <<"cac", "conversions", "spend", "revenue",
                             "performance", "metrics">>)

\* C6 as amended: the keywords are scanned in the order cac, roas, spend,
\* conversions, revenue, performance, metrics (so spend with conversions
\* gives [spend], and roas alone gives [ROAS]).
C6_MetricsInMappingOrder ==
    NlqAnswered =>
        resp.body.metrics
          = MetricsByOrder(AskedQuestion,
                           <<"cac", "roas", "spend", "conversions",
                             "revenue", "performance", "metrics">>)

\* A question with both spend and conversions was answered with [spend].
C6_Witness ==
    /\ NlqAnswered
    /\ Contains(AskedQuestion, "spend")
    /\ Contains(AskedQuestion, "conversions")
    /\ resp.body.metrics = <<"spend">>

\* The last day of a month, from the calendar rules.
LastDayOfMonth(y, m) ==
    CASE m \in {1, 3, 5, 7, 8, 10, 12} -> 31
      [] m \in {4, 6, 9, 11} -> 30
      [] m = 2 /\ (y % 400 = 0 \/ (y % 4 = 0 /\ y % 100 # 0)) -> 29
      [] OTHER -> 28

FullMonth(lo, hi, y, m) ==
    lo = <<y, m, 1>> /\ hi = <<y, m, LastDayOfMonth(y, m)>>

\* The question is a current-month/last-month pair for the recognizer.
AskedCurrentMonth ==
    LET tp == _extract_time_periods(AskedQuestion)
    IN  tp # <<>> /\ tp[1].type = "current"

\* C7: for a current/last month pair and every today, second = [first day
\* of today's month, today] and first = the full previous calendar month
\* (December of the previous year in January), first_end being the day
\* before second_start.
C7_CurrentAndPreviousMonth ==
    (resp.endpoint = NlqEndpoint /\ AskedCurrentMonth) =>
        LET t  == nl_today
            py == IF t.month = 1 THEN t.year - 1 ELSE t.year
            pm == IF t.month = 1 THEN 12 ELSE t.month - 1
        IN  /\ resp.status = 200
            /\ NlqParams.second_start = <<t.year, t.month, 1>>
            /\ NlqParams.second_end = <<t.year, t.month, t.day>>
            /\ FullMonth(NlqParams.first_start, NlqParams.first_end, py, pm)
            /\ Ord(NlqParams.first_end) + 1 = Ord(NlqParams.second_start)

\* "this month vs last month" answered on a day of January.
C7_Witness ==
    /\ NlqAnswered
    /\ AskedCurrentMonth
    /\ nl_today.month = 1
    /\ nl_today.day > 1
    /\ NlqParams.first_start = <<nl_today.year - 1, 12, 1>>
    /\ NlqParams.second_end = IsoFormat(nl_today)

\* The month names, by month number.
EnglishMonths == <<"january", "february", "march", "april", "may", "june",
                   "july", "august", "september", "october", "november",
                   "december">>

SpanishMonths == <<"enero", "febrero", "marzo", "abril", "mayo", "junio",
                   "julio", "agosto", "septiembre", "octubre", "noviembre",
                   "diciembre">>

IsMonthName(w) ==
    w = "setiembre" \/ \E n \in 1..12 : w \in {EnglishMonths[n], SpanishMonths[n]}

MonthNumber(w) ==
    IF w = "setiembre" THEN 9
    ELSE CHOOSE n \in 1..12 : w \in {EnglishMonths[n], SpanishMonths[n]}

\* The question is "<monthA> vs <monthB>", after metric keywords or none.
AskedNamedMonths ==
    LET q == AskedQuestion
        n == Len(q)
    IN  /\ n >= 3
        /\ IsMonthName(q[n - 2]) /\ q[n - 1] = "vs" /\ IsMonthName(q[n])
        /\ \A i \in 1..(n - 3) : \E k \in DOMAIN MetricKeys :
               q[i] = MetricKeys[k]

\* C8: "<monthA> vs <monthB>" maps the first month named to first and the
\* second to second, each the full span of that month in today's year,
\* whatever the calendar order of the two months.
C8_NamedMonthsInPhraseOrder ==
    (resp.endpoint = NlqEndpoint /\ AskedNamedMonths) =>
        LET q == AskedQuestion
            n == Len(q)
        IN  /\ resp.status = 200
            /\ FullMonth(NlqParams.first_start, NlqParams.first_end,
                         nl_today.year, MonthNumber(q[n - 2]))
            /\ FullMonth(NlqParams.second_start, NlqParams.second_end,
                         nl_today.year, MonthNumber(q[n]))

\* "june vs may" in 2025: first is June, second is May.
C8_Witness ==
    /\ NlqAnswered
    /\ AskedQuestion = <<"june", "vs", "may">>
    /\ NlqParams.first_start = <<2025, 6, 1>>
    /\ NlqParams.first_end = <<2025, 6, 30>>
    /\ NlqParams.second_start = <<2025, 5, 1>>
    /\ NlqParams.second_end = <<2025, 5, 31>>

\* The question is a last-week/prior-week pair for the recognizer.
AskedWeeks ==
    LET tp == _extract_time_periods(AskedQuestion)
    IN  tp # <<>> /\ Get(tp[1], "unit") = "week"

\* C11: for a last-week/prior-week pair and every today, second =
\* [today-7, today-1] (today is never included) and first =
\* [today-14, today-8].
C11_TrailingWeeks ==
    (resp.endpoint = NlqEndpoint /\ AskedWeeks) =>
        LET t == ToOrdinal(nl_today)
        IN  /\ resp.status = 200
            /\ IsIsoDate(NlqParams.first_start)
            /\ IsIsoDate(NlqParams.first_end)
            /\ IsIsoDate(NlqParams.second_start)
            /\ IsIsoDate(NlqParams.second_end)
            /\ Ord(NlqParams.second_start) = t - 7
            /\ Ord(NlqParams.second_end) = t - 1
            /\ Ord(NlqParams.first_start) = t - 14
            /\ Ord(NlqParams.first_end) = t - 8

\* A week pair answered on 2024-03-05: the windows cross the end of a
\* leap February.
C11_Witness ==
    /\ NlqAnswered
    /\ AskedWeeks
    /\ nl_today = Date(2024, 3, 5)
    /\ NlqParams.first_start = <<2024, 2, 20>>
    /\ NlqParams.first_end = <<2024, 2, 26>>
    /\ NlqParams.second_start = <<2024, 2, 27>>
    /\ NlqParams.second_end = <<2024, 3, 4>>

\* What parse_natural_language produced for the last question asked.
ParseResult == parse_natural_language(resp.request.question, nl_today)

\* The four pair shapes of the recognizer.
DaysShape(tp) ==
    /\ tp[1].type = "last" /\ tp[2].type = "prior"
    /\ Get(tp[1], "unit") = "days" /\ Get(tp[2], "unit") = "days"
    /\ tp[1].value \in Nat /\ tp[1].value = tp[2].value

MonthShape(tp) ==
    /\ tp[1] = [type |-> "current", unit |-> "month"]
    /\ tp[2] = [type |-> "last", unit |-> "month"]

NamedShape(tp) ==
    \A i \in 1..2 : /\ DOMAIN tp[i] = {"type", "value"}
                     /\ tp[i].type = "month"
                     /\ IsMonthName(tp[i].value)

WeekShape(tp) ==
    /\ tp[1] = [type |-> "last", unit |-> "week"]
    /\ tp[2] = [type |-> "prior", unit |-> "week"]

PairShape(tp) ==
    /\ Len(tp) = 2
    /\ DaysShape(tp) \/ MonthShape(tp) \/ NamedShape(tp) \/ WeekShape(tp)

FourDates(p) ==
    /\ DOMAIN p = {"first_start", "first_end", "second_start", "second_end"}
    /\ \A k \in DOMAIN p : IsIsoDate(p[k])

\* C12: for every question, parse_natural_language returns no result, or
\* a result with exactly two time-period specs of one pair shape and all
\* four date parameters.
C12_TwoPeriodsAndFourDates ==
    (resp.endpoint = NlqEndpoint) =>
        \/ ParseResult = None
        \/ /\ DOMAIN ParseResult
                 = {"metrics", "time_periods", "api_params", "endpoint"}
           /\ PairShape(ParseResult.time_periods)
           /\ FourDates(ParseResult.api_params)

\* The conditions of the four patterns: N and M are the numbers of the
\* leftmost "last N days" and "prior|previous M days", the named months
\* are the words around the leftmost "word vs word".
LastN(q) ==
    IF NumberOfDays(q, {"last"}) = {} THEN -1
    ELSE IntOf(q[First(NumberOfDays(q, {"last"})) + 1])

PriorM(q) ==
    IF NumberOfDays(q, {"prior", "previous"}) = {} THEN -1
    ELSE IntOf(q[First(NumberOfDays(q, {"prior", "previous"})) + 1])

DaysCondition(q) == LastN(q) >= 0 /\ LastN(q) = PriorM(q)

MonthCondition(q) ==
    /\ Pair(q, {"this", "este"}, {"month"}) # {}
    /\ Pair(q, {"last"}, {"month"}) \cup Pair(q, {"mes"}, {"pasado"}) # {}

NamedCondition(q) ==
    /\ WordVsWord(q) # {}
    /\ IsMonthName(q[First(WordVsWord(q))])
    /\ IsMonthName(q[First(WordVsWord(q)) + 2])

WeekCondition(q) ==
    /\ Pair(q, {"last"}, {"week"}) # {}
    /\ Pair(q, {"prior", "previous"}, {"week"}) # {}

\* The periods extracted from the last question asked are tp, and the
\* answer shows them.
Extracted(tp) ==
    /\ _extract_time_periods(AskedQuestion) = tp
    /\ resp.status # 400
    /\ (resp.status = 200 /\ ~resp.request.execute)
           => resp.body.time_periods = tp

\* C13: the patterns are tried in the order relative days, current/last
\* month, named months, last/prior week; the first one whose conditions
\* hold gives the pair, whatever later patterns are present; "last N days"
\* with "prior M days" and N # M gives no relative-days pair.
C13_FirstPatternWins ==
    (resp.endpoint = NlqEndpoint) =>
        LET q == AskedQuestion
        IN  /\ DaysCondition(q) =>
                  Extracted(<<[type |-> "last", value |-> LastN(q),
                               unit |-> "days"],
                              [type |-> "prior", value |-> LastN(q),
                               unit |-> "days"]>>)
            /\ (~DaysCondition(q) /\ MonthCondition(q)) =>
                  Extracted(<<[type |-> "current", unit |-> "month"],
                              [type |-> "last", unit |-> "month"]>>)
            /\ (~DaysCondition(q) /\ ~MonthCondition(q)
                   /\ NamedCondition(q)) =>
                  Extracted(<<[type |-> "month",
                               value |-> q[First(WordVsWord(q))]],
                              [type |-> "month",
                               value |-> q[First(WordVsWord(q)) + 2]]>>)
            /\ (~DaysCondition(q) /\ ~MonthCondition(q)
                   /\ ~NamedCondition(q) /\ WeekCondition(q)) =>
                  Extracted(<<[type |-> "last", unit |-> "week"],
                              [type |-> "prior", unit |-> "week"]>>)
            /\ (LastN(q) >= 0 /\ PriorM(q) >= 0 /\ LastN(q) # PriorM(q)) =>
                  (resp.status = 200 /\ ~resp.request.execute =>
                     \A i \in 1..2 :
                        Get(resp.body.time_periods[i], "unit") # "days")

\* A question that satisfies all four patterns was answered with the
\* relative-days pair.
C13_Witness ==
    /\ NlqAnswered
    /\ ~resp.request.execute
    /\ DaysCondition(AskedQuestion)
    /\ MonthCondition(AskedQuestion)
    /\ NamedCondition(AskedQuestion)
    /\ WeekCondition(AskedQuestion)
    /\ resp.body.time_periods[1] = [type |-> "last", value |-> 7,
                                     unit |-> "days"]

\* This step is parse_and_run answering a question with windows.
NlqHandled ==
    /\ resp = NoReply
    /\ resp'.endpoint = NlqEndpoint
    /\ resp'.status = 200

\* The windows of the answer given in this step end as they do when today
\* is the day d: a relative-days pair has second_end = d, a week pair has
\* second_end = d - 1.
WindowsOfDay(d) ==
    /\ AskedDays' >= 0 => NlqParams'.second_end = IsoFormat(d)
    /\ AskedWeeks' => Ord(NlqParams'.second_end) = ToOrdinal(d) - 1

\* C14: whatever days the requests of one process arrive on, each
\* request's windows are generated from the calendar date on which it is
\* handled; no date persists from process start or an earlier request.
C14_TodayIsDayOfRequest ==
    [][NlqHandled => WindowsOfDay(clock')]_vars

====
